---- MODULE Spec2Model ----
(***************************************************************************)
(* Maximum-activation search (intent/maxact.py): per hidden unit, the      *)
(* top-N activations seen in a stream of batches, with the coordinates of  *)
(* the examples that produced them.                                        *)
(*                                                                         *)
(* Tensors are nested sequences, outermost axis first.  Index VALUES that  *)
(* the program stores (example indices, rows, columns, sort permutations)  *)
(* are 0-based as in the program; sequences are 1-based, so a stored index *)
(* k addresses element k + 1.                                              *)
(***************************************************************************)
EXTENDS Integers, Sequences, FiniteSets, TLC

VARIABLES
    topn,                   \* MaximumActivationSearch.topn
    outputs,                \* MaximumActivationSearch.outputs: the dims of each monitored output
    maximum_activations,    \* MaximumActivationSearch.maximum_activations: one record per output
    streamindex,            \* MaximumActivationSearch.streamindex
    history,                \* history: the inputs of every step so far, one batch per output
    prev,                   \* history: maximum_activations before the last step
    cargsorts,              \* history: the truncated sort permutation each output used in the last step
    origin,                 \* history: per output and slot, <<step, position in batch>> of the entry, <<0, 0>> for an initial zero
    ranks,                  \* the number of axes of each monitored output variable: 2 or 4
    error,                  \* the exception __init__ raised, "none" when it returned
    maximum_activations_updates,    \* MaximumActivationSearch.maximum_activations_updates, with the values of the last step
    call                    \* the call of a function outside the controller that is under way

vars == <<topn, outputs, maximum_activations, streamindex, history, prev, cargsorts, origin,
          ranks, error, maximum_activations_updates, call>>

---------------------------------------------------------------------------
(* Bounds of the model *)

MaxTopN == 2
MaxBatch == 3
MaxExamples == 3
MaxSpatialExamples == 2

\* activations of a dense output with one unit
Vals == {-1, 0, 1, 3, 5}
\* activations of a dense output with several units
FewVals == {0, 1}
\* activations of a spatial output: a low and a high one
SpatialLevels == <<1, 9>>
Low == SpatialLevels[1]
High == SpatialLevels[2]
\* the 2 x 2 feature map of scenario B
ScenarioBMap == <<(<<1, 9>>), (<<2, 3>>)>>

\* dims of the monitored outputs: <<units>> or <<units, height, width>>
DenseDims == {<<1>>, <<2>>}
SpatialDims == {<<1, 2, 2>>, <<1, 1, 2>>, <<1, 2, 1>>, <<2, 1, 2>>}

---------------------------------------------------------------------------
(* Generic helpers *)

RECURSIVE SumSeq(_)
SumSeq(s) == IF s = <<>> THEN 0 ELSE s[1] + SumSeq(Tail(s))

RECURSIVE Flat(_)
\* concatenation of a sequence of sequences
Flat(ss) == IF ss = <<>> THEN <<>> ELSE ss[1] \o Flat(Tail(ss))

RECURSIVE SeqProduct(_)
\* all sequences whose k-th element is drawn from the k-th set
SeqProduct(sets) ==
    IF sets = <<>> THEN {<<>>}
    ELSE {<<x>> \o rest : x \in sets[1], rest \in SeqProduct(Tail(sets))}

Max(S) == CHOOSE x \in S : \A y \in S : y <= x

Column(m, u) == [i \in 1..Len(m) |-> m[i][u]]

\* rows from columns: (units, n) -> (n, units)
Transpose(cols) == [i \in 1..Len(cols[1]) |-> [u \in 1..Len(cols) |-> cols[u][i]]]

---------------------------------------------------------------------------
(* numpy / theano primitives *)

\* Counters without the stream position: positions within the batch only
CountersMutant(b, units, si) == [j \in 1..b |-> [u \in 1..units |-> j - 1]]

\* tensor.arange(b) + streamindex, padded right and tiled over the units
Counters(b, units, si) == [j \in 1..b |-> [u \in 1..units |-> (j - 1) + si]]

\* row-major flattening of one height x width map
FlattenMap(map) ==
    LET h == Len(map)
        w == Len(map[1])
    IN  [k \in 1..(h * w) |-> map[((k - 1) \div w) + 1][((k - 1) % w) + 1]]

\* output.flatten(ndim=3): (cases, units, height, width) -> (cases, units, height * width)
Flatten3(output) ==
    [j \in 1..Len(output) |-> [u \in 1..Len(output[j]) |-> FlattenMap(output[j][u])]]

\* argmax of a vector: 0-based position of the first maximal element
ArgMaxVec(v) ==
    (CHOOSE k \in 1..Len(v) :
        /\ \A l \in 1..Len(v) : v[l] <= v[k]
        /\ \A l \in 1..(k - 1) : v[l] < v[k]) - 1

\* fmax.argmax(axis=2)
ArgMaxAxis2(fmax) ==
    [j \in 1..Len(fmax) |-> [u \in 1..Len(fmax[j]) |-> ArgMaxVec(fmax[j][u])]]

\* Python divmod on non-negative operands
DivMod(a, b) == <<a \div b, a % b>>

RECURSIVE ArgSortFrom(_, _, _)
\* the first n positions of every order in which the positions S of vector v
\* can be listed with v ascending
ArgSortFrom(v, S, n) ==
    IF n = 0 \/ S = {} THEN {<<>>}
    ELSE UNION {{<<k - 1>> \o p : p \in ArgSortFrom(v, S \ {k}, n - 1)} :
                    k \in {k \in S : \A l \in S : v[k] <= v[l]}}

\* ArgSortVecTake without the truncation to n
ArgSortVecTakeMutant(v, n) == ArgSortFrom(v, 1..Len(v), Len(v))

\* v.argsort()[:n]: numpy's default sort kind is not stable, so any permutation
\* that sorts v ascending can come out; equal elements may appear in any order
ArgSortVecTake(v, n) == ArgSortFrom(v, 1..Len(v), n)

\* Neg without the negation: the sort then ranks the smallest first
NegMutant(m) == m

Neg(m) == [i \in 1..Len(m) |-> [u \in 1..Len(m[i]) |-> 0 - m[i][u]]]

---------------------------------------------------------------------------
(* maxact.py *)

\* apply_perm that ignores the permutation and keeps the leading rows
apply_permMutant(data, indices) ==
    [i \in 1..Len(indices) |-> [u \in 1..Len(indices[i]) |-> data[i][u]]]

\* _apply_perm(data, indices, axis=0): indices is 2d (rows, units); data has
\* the same units and any number of trailing axes, over which indices is
\* padded right and broadcast
apply_perm(data, indices) ==
    [i \in 1..Len(indices) |->
        [u \in 1..Len(indices[i]) |-> data[indices[i][u] + 1][u]]]

\* _apply_index(data, indices, axis=2) for 3d data and 2d indices
apply_index(data, indices) ==
    [j \in 1..Len(data) |->
        [u \in 1..Len(data[j]) |-> data[j][u][indices[j][u] + 1]]]

NoSnapshot == [some |-> FALSE, val |-> <<>>]

\* create_maximum_activation_for whose quantities start below zero
create_maximum_activation_forMutant(dims, n) ==
    [dims |-> dims,
     quantity |-> [i \in 1..n |-> [u \in 1..dims[1] |-> -1]],
     index |-> [i \in 1..n |-> [u \in 1..dims[1] |->
                    IF Len(dims) = 1 THEN 0 ELSE <<0, 0, 0>>]],
     snapshot |-> IF Len(dims) = 1 THEN NoSnapshot
                  ELSE [some |-> TRUE,
                        val |-> [i \in 1..n |-> [u \in 1..dims[1] |->
                                    [r \in 1..dims[2] |-> [c \in 1..dims[3] |-> 0]]]]]]

\* _create_maximum_activation_for(output, topn, dims)
create_maximum_activation_for(dims, n) ==
    IF Len(dims) = 1
    THEN [dims |-> dims,
          quantity |-> [i \in 1..n |-> [u \in 1..dims[1] |-> 0]],
          index |-> [i \in 1..n |-> [u \in 1..dims[1] |-> 0]],
          snapshot |-> NoSnapshot]
    ELSE [dims |-> dims,
          quantity |-> [i \in 1..n |-> [u \in 1..dims[1] |-> 0]],
          index |-> [i \in 1..n |-> [u \in 1..dims[1] |-> <<0, 0, 0>>]],
          snapshot |-> [some |-> TRUE,
                        val |-> [i \in 1..n |-> [u \in 1..dims[1] |->
                                    [r \in 1..dims[2] |-> [c \in 1..dims[3] |-> 0]]]]]]

\* tmax of _create_maximum_activation_update: (cases, units) -> activation
Tmax(output, record) ==
    IF Len(record.dims) = 1
    THEN output
    ELSE LET fmax == Flatten3(output)
         IN  apply_index(fmax, ArgMaxAxis2(fmax))

\* Tind that splits the flat location by the map height instead of its width
TindMutant(output, record, si) ==
    LET counters == Counters(Len(output), Len(output[1]), si)
    IN  IF Len(record.dims) = 1
        THEN counters
        ELSE LET fargmax == ArgMaxAxis2(Flatten3(output))
             IN  [j \in 1..Len(output) |-> [u \in 1..Len(output[j]) |->
                    LET targmax == DivMod(fargmax[j][u], record.dims[2])
                    IN  <<counters[j][u], targmax[1], targmax[2]>>]]

\* tind of _create_maximum_activation_update: (cases, units) -> case index (and maxloc)
Tind(output, record, si) ==
    LET counters == Counters(Len(output), Len(output[1]), si)
    IN  IF Len(record.dims) = 1
        THEN counters
        ELSE LET fargmax == ArgMaxAxis2(Flatten3(output))
             IN  [j \in 1..Len(output) |-> [u \in 1..Len(output[j]) |->
                    LET targmax == DivMod(fargmax[j][u], record.dims[3])
                    IN  <<counters[j][u], targmax[1], targmax[2]>>]]

\* Cmax that ranks the batch against zeros instead of the record
CmaxMutant(output, record) ==
    [i \in 1..Len(record.quantity) |-> [u \in 1..Len(record.quantity[i]) |-> 0]]
        \o Tmax(output, record)

\* cmax of _create_maximum_activation_update
Cmax(output, record) == record.quantity \o Tmax(output, record)

\* Cind with the batch before the record, against the order of cmax
CindMutant(output, record, si) == Tind(output, record, si) \o record.index

\* cind of _create_maximum_activation_update
Cind(output, record, si) == record.index \o Tind(output, record, si)

\* what a truncated sort permutation p of the column of unit u carries into
\* the record, from the candidate buffers bufs
Gathered(bufs, p, u) ==
    [k \in 1..Len(bufs) |-> [i \in 1..Len(p) |-> bufs[k][p[i] + 1][u]]]

\* the values (-cmax).argsort(axis=0)[:topn] can take, as (topn, units)
\* matrices.  The sort is applied to each column on its own.  Permutations of
\* a column that differ only in the order of candidates equal in every
\* buffer of bufs give the same update, and one of them is kept.
CargsortChoices(output, record, n, bufs) ==
    LET ncmax == Neg(Cmax(output, record))
        units == Len(ncmax[1])
        perms(u) == ArgSortVecTake(Column(ncmax, u), n)
        cols == [u \in 1..units |->
                    {CHOOSE p \in perms(u) : Gathered(bufs, p, u) = g :
                        g \in {Gathered(bufs, p, u) : p \in perms(u)}}]
    IN  {Transpose(c) : c \in SeqProduct(cols)}

\* _create_maximum_activation_update(output, record, streamindex, topn),
\* given the permutation the sort returned
create_maximum_activation_update(output, record, si, cargsort) ==
    LET cmax == Cmax(output, record)
        cind == Cind(output, record, si)
    IN  [dims |-> record.dims,
         quantity |-> apply_perm(cmax, cargsort),
         index |-> apply_perm(cind, cargsort),
         snapshot |-> IF record.snapshot.some
                      THEN [some |-> TRUE,
                            val |-> apply_perm(record.snapshot.val \o output, cargsort)]
                      ELSE record.snapshot]

---------------------------------------------------------------------------
(* Inputs *)

IsDense(dims) == Len(dims) = 1

\* feature maps: flat, one peak at any cell, and the map of scenario B
FeatureMaps(h, w) ==
    {[r \in 1..h |-> [c \in 1..w |-> v]] : v \in {Low, High}}
    \cup {[r \in 1..h |-> [c \in 1..w |-> IF r = pr /\ c = pc THEN High ELSE Low]] :
            pr \in 1..h, pc \in 1..w}
    \cup (IF h = 2 /\ w = 2 THEN {ScenarioBMap} ELSE {})

\* the activations of one example of an output
Examples(dims) ==
    IF IsDense(dims)
    THEN [1..dims[1] -> IF Len(outputs) = 1 /\ dims[1] = 1 THEN Vals ELSE FewVals]
    ELSE [1..dims[1] -> FeatureMaps(dims[2], dims[3])]

Batches(dims, b) == [1..b -> Examples(dims)]

\* the number of examples a run feeds to an output at most; every unit past
\* the first, over all outputs, takes one example off
ExampleCap ==
    (IF \A o \in 1..Len(outputs) : IsDense(outputs[o]) THEN MaxExamples ELSE MaxSpatialExamples)
        - (SumSeq([o \in 1..Len(outputs) |-> outputs[o][1]]) - 1)

\* the number of examples output o has been fed
FedCount(o) == SumSeq([k \in 1..Len(history) |-> Len(history[k][o])])

\* the number of axes of an output that agrees with its dims
RankOf(dims) == IF IsDense(dims) THEN 2 ELSE 4

\* no call of a function outside the controller
NoCall == [fn |-> "none"]

---------------------------------------------------------------------------
(* The controller *)

\* UpdateGraphError of a graph that is built whatever the rank
UpdateGraphErrorMutant(dims, rank) == "none"

\* the exception raised while the update graph of one output is built: with
\* dims of a dense record, concatenate((maximums, tmax)) refuses a tmax that
\* is not 2d; with dims of a spatial record, output.flatten(ndim=3) refuses an
\* output of fewer than 3 axes
UpdateGraphError(dims, rank) ==
    IF Len(dims) = 1
    THEN (IF rank = 2 THEN "none" ELSE "TypeError")
    ELSE (IF rank = 4 THEN "none" ELSE "ValueError")

RECURSIVE FirstError(_)
\* the first exception of a sequence of outcomes
FirstError(es) ==
    IF es = <<>> THEN "none"
    ELSE IF es[1] # "none" THEN es[1] ELSE FirstError(Tail(es))

\* the exception MaximumActivationSearch.__init__ raises: numpy.zeros refuses
\* a negative topn when the records are made, then the update graphs are built
\* output by output
ConstructionError(n, outs, rks) ==
    IF n < 0 THEN "ValueError"
    ELSE FirstError([o \in 1..Len(outs) |-> UpdateGraphError(outs[o], rks[o])])

\* MaximumActivationSearch.__init__(outputs, dims, topn): one zeroed record per
\* output, stream position 0
Constructed(n, outs, rks) ==
    /\ topn = n
    /\ outputs = outs
    /\ ranks = rks
    /\ error = ConstructionError(n, outs, rks)
    /\ maximum_activations =
        IF n < 0 THEN <<>>
        ELSE [o \in 1..Len(outs) |-> create_maximum_activation_for(outs[o], n)]
    /\ streamindex = 0
    /\ history = <<>>
    /\ prev = maximum_activations
    /\ cargsorts = <<>>
    /\ origin =
        IF n < 0 THEN <<>>
        ELSE [o \in 1..Len(outs) |-> [i \in 1..n |-> [u \in 1..outs[o][1] |-> <<0, 0>>]]]
    /\ maximum_activations_updates = <<>>
    /\ call = NoCall

\* a controller of one output, dense or spatial, with topn >= 1
Init ==
    \E n \in 1..MaxTopN : \E d \in DenseDims \cup SpatialDims :
        Constructed(n, <<d>>, <<RankOf(d)>>)

\* origin of the candidates of output o in a step: the record's, then the batch's
OriginCandidates(o, b) ==
    origin[o] \o [j \in 1..b |-> [u \in 1..outputs[o][1] |-> <<Len(history) + 1, j - 1>>]]

\* StreamindexUpdate that counts steps instead of examples
StreamindexUpdateMutant(si, inputs) == si + 1

\* the stream position update: streamindex + outputs[0].shape[0]
StreamindexUpdate(si, inputs) == si + Len(inputs[1])

\* every buffer a candidate of output o has an entry in
CandidateBuffers(o, output) ==
    <<Cmax(output, maximum_activations[o]),
      Cind(output, maximum_activations[o], streamindex),
      OriginCandidates(o, Len(output))>>
    \o (IF maximum_activations[o].snapshot.some
        THEN <<maximum_activations[o].snapshot.val \o output>> ELSE <<>>)

\* RecordUpdates whose snapshot update lists the batch before the record
RecordUpdatesMutant(o, output, record, si, cargsort) ==
    LET new == create_maximum_activation_update(output, record, si, cargsort)
    IN  <<[target |-> <<"quantity", o>>, value |-> new.quantity],
          [target |-> <<"index", o>>, value |-> new.index]>>
        \o (IF record.snapshot.some
            THEN <<[target |-> <<"snapshot", o>>,
                    value |-> apply_perm(output \o record.snapshot.val, cargsort)]>>
            ELSE <<>>)

\* the updates of one record as (target, value) pairs, from a record and a
\* stream position
RecordUpdates(o, output, record, si, cargsort) ==
    LET new == create_maximum_activation_update(output, record, si, cargsort)
    IN  <<[target |-> <<"quantity", o>>, value |-> new.quantity],
          [target |-> <<"index", o>>, value |-> new.index]>>
        \o (IF record.snapshot.some
            THEN <<[target |-> <<"snapshot", o>>, value |-> new.snapshot.val]>>
            ELSE <<>>)

\* UpdatesFor that lets an output see the stream position already advanced
\* by the batches of the outputs before it
UpdatesForMutant(o, inputs, sorts) ==
    RecordUpdates(o, inputs[o], maximum_activations[o],
                  streamindex + SumSeq([k \in 1..(o - 1) |-> Len(inputs[k])]), sorts[o])

\* the updates of output o in the bundle: computed from the record and the
\* stream position as they are before the step
UpdatesFor(o, inputs, sorts) ==
    RecordUpdates(o, inputs[o], maximum_activations[o], streamindex, sorts[o])

\* StreamUpdates that advances the stream position once for every output
StreamUpdatesMutant(inputs) ==
    [o \in 1..Len(inputs) |->
        [target |-> <<"streamindex", 0>>, value |-> StreamindexUpdate(streamindex, inputs)]]

\* the stream position updates appended to the bundle: one
StreamUpdates(inputs) ==
    <<[target |-> <<"streamindex", 0>>, value |-> StreamindexUpdate(streamindex, inputs)]>>

\* maximum_activations_updates: the updates of every output in list order,
\* then the stream position update
MaximumActivationsUpdates(inputs, sorts) ==
    Flat([o \in 1..Len(inputs) |-> UpdatesFor(o, inputs, sorts)]) \o StreamUpdates(inputs)

\* the value the bundle gives a target; when the bundle names it more than once
\* the last one stands
NewValue(updates, target) ==
    updates[Max({k \in 1..Len(updates) : updates[k].target = target})].value

\* one training step: the update bundle built in __init__, applied as a whole
Step ==
    /\ error = "none"
    /\ \E bs \in SeqProduct([o \in 1..Len(outputs) |-> 1..MaxBatch]) :
        /\ \A o \in 1..Len(outputs) : FedCount(o) + bs[o] <= ExampleCap
        /\ \E inputs \in SeqProduct([o \in 1..Len(outputs) |-> Batches(outputs[o], bs[o])]) :
           \E sorts \in SeqProduct([o \in 1..Len(outputs) |->
                            CargsortChoices(inputs[o], maximum_activations[o], topn,
                                            CandidateBuffers(o, inputs[o]))]) :
                /\ maximum_activations_updates' = MaximumActivationsUpdates(inputs, sorts)
                /\ LET updates == maximum_activations_updates'
                   IN  /\ maximum_activations' = [o \in 1..Len(outputs) |->
                            [dims |-> maximum_activations[o].dims,
                             quantity |-> NewValue(updates, <<"quantity", o>>),
                             index |-> NewValue(updates, <<"index", o>>),
                             snapshot |->
                                IF maximum_activations[o].snapshot.some
                                THEN [some |-> TRUE, val |-> NewValue(updates, <<"snapshot", o>>)]
                                ELSE maximum_activations[o].snapshot]]
                       /\ streamindex' = NewValue(updates, <<"streamindex", 0>>)
                /\ history' = Append(history, inputs)
                /\ prev' = maximum_activations
                /\ cargsorts' = sorts
                /\ origin' = [o \in 1..Len(outputs) |->
                        apply_perm(OriginCandidates(o, bs[o]), sorts[o])]
    /\ UNCHANGED <<topn, outputs, ranks, error, call>>

Next == Step

Spec == Init /\ [][Next]_vars

\* values of topn that leave no slot
DegenerateTopN == {-1, 0}

\* the output lists of the controllers with several outputs, and of one
ControllerOutputs ==
    {<<(<<1, 1, 2>>)>>, <<(<<1>>), (<<1>>)>>, <<(<<1>>), (<<1, 1, 2>>)>>, <<(<<1, 1, 2>>), (<<1>>)>>}

\* a controller of one or two outputs, of a topn that leaves no slot or some,
\* whose outputs have the number of axes their dims say or another
InitController ==
    \E n \in DegenerateTopN \cup (1..(MaxTopN - 1)) : \E outs \in ControllerOutputs :
        \E rks \in [1..Len(outs) -> {2, 4}] :
            Constructed(n, outs, rks)

SpecController == InitController /\ [][Next]_vars

---------------------------------------------------------------------------
(* SampledScheme of noisy.py *)

\* the largest number of examples and the largest batch_size of a scheme
MaxIndices == 3
MaxBatchSize == 3

\* the variables of the controller
controllerVars ==
    <<topn, outputs, maximum_activations, streamindex, history, prev, cargsorts, origin,
      ranks, error, maximum_activations_updates>>

\* no controller has been constructed
NoController ==
    /\ topn = 0 /\ outputs = <<>> /\ ranks = <<>> /\ error = "none"
    /\ maximum_activations = <<>> /\ streamindex = 0 /\ history = <<>>
    /\ prev = <<>> /\ cargsorts = <<>> /\ origin = <<>>
    /\ maximum_activations_updates = <<>>

RECURSIVE partition_all(_, _)
\* toolz partition_all(n, seq): chunks of n elements, the last one of
\* whatever is left
partition_all(n, seq) ==
    IF seq = <<>> THEN <<>>
    ELSE IF Len(seq) <= n THEN <<seq>>
    ELSE <<SubSeq(seq, 1, n)>> \o partition_all(n, SubSeq(seq, n + 1, Len(seq)))

\* the number of indices get_request_iterator samples
SampleCount(examples, batch_size) ==
    IF examples < batch_size THEN batch_size ELSE examples

\* rng.choice(indices, count): count draws with replacement from the list
\* of indices 0..examples-1
RngChoice(examples, count) == [1..count -> 0..(examples - 1)]

\* SampledScheme(examples, batch_size)
InitSampled ==
    /\ NoController
    /\ \E examples \in 0..MaxIndices : \E batch_size \in 1..MaxBatchSize :
        call = [fn |-> "SampledScheme", examples |-> examples, batch_size |-> batch_size,
                pc |-> "constructed", pending |-> <<>>, yielded |-> <<>>]

\* get_request_iterator(): sample, and hand the chunks to an iterator.
\* rng.choice raises ValueError on an empty list of indices.
GetRequestIterator ==
    /\ call.pc = "constructed"
    /\ IF call.examples = 0
       THEN call' = [call EXCEPT !.pc = "ValueError"]
       ELSE \E indices \in RngChoice(call.examples, SampleCount(call.examples, call.batch_size)) :
                call' = [call EXCEPT !.pc = "iterating",
                                     !.pending = partition_all(call.batch_size, indices)]
    /\ UNCHANGED controllerVars

\* next() of the request iterator: the next chunk as a list
NextRequest ==
    /\ call.pc = "iterating"
    /\ call.pending # <<>>
    /\ call' = [call EXCEPT !.yielded = Append(call.yielded, Head(call.pending)),
                            !.pending = Tail(call.pending)]
    /\ UNCHANGED controllerVars

\* next() of the request iterator when no chunk is left
StopIteration ==
    /\ call.pc = "iterating"
    /\ call.pending = <<>>
    /\ call' = [call EXCEPT !.pc = "exhausted"]
    /\ UNCHANGED controllerVars

NextSampled == GetRequestIterator \/ NextRequest \/ StopIteration

SpecSampled == InitSampled /\ [][NextSampled]_vars

---------------------------------------------------------------------------
(* _apply_perm and _apply_index on arrays of any number of axes *)

\* An array is a record [shape, at]: at maps every tuple of 0-based
\* positions below shape to the element there.

\* the largest number of elements of an index array
MaxIndexCells == 4

\* the shapes of the data arrays
GatherShapes == {<<2, 3>>, <<3, 1>>, <<1, 2>>, <<2, 2>>, <<2, 1, 2>>, <<2, 2, 1>>, <<3, 2, 2>>}

\* the positions of an array of a shape
Positions(shape) == SeqProduct([a \in 1..Len(shape) |-> 0..(shape[a] - 1)])

RECURSIVE CellCount(_)
CellCount(shape) == IF shape = <<>> THEN 1 ELSE shape[1] * CellCount(Tail(shape))

\* what indexing returns when it raises
Raised(err) == [err |-> err, shape |-> <<>>, at |-> <<>>]

\* _axis_count that counts nothing: position 0 everywhere
_axis_countMutant(shape, axis, ndim) ==
    LET sh == [a \in 1..ndim |-> IF a - 1 = axis THEN shape[axis + 1] ELSE 1]
    IN  [shape |-> sh, at |-> [p \in Positions(sh) |-> 0]]

\* _axis_count(shape, axis, ndim): arange(shape[axis]) laid along axis of an
\* array of ndim axes, the other axes of length 1
_axis_count(shape, axis, ndim) ==
    LET sh == [a \in 1..ndim |-> IF a - 1 = axis THEN shape[axis + 1] ELSE 1]
    IN  [shape |-> sh, at |-> [p \in Positions(sh) |-> p[axis + 1]]]

\* tensor.shape_padright(x, n_ones): n_ones axes of length 1 added on the right
shape_padright(x, n_ones) ==
    LET sh == x.shape \o [k \in 1..n_ones |-> 1]
    IN  [shape |-> sh, at |-> [p \in Positions(sh) |-> x.at[SubSeq(p, 1, Len(x.shape))]]]

\* data[tuple(idxs)] with one integer array per axis of data, all of the same
\* number of axes: the index arrays are broadcast against each other and the
\* element at p of the result is data at the position the index arrays hold
\* at p.  Shapes that do not broadcast and positions outside data raise
\* IndexError.
AdvancedIndex(data, idxs) ==
    LET r == Len(idxs[1].shape)
        lens(k) == {idxs[a].shape[k] : a \in 1..Len(idxs)} \ {1}
        shape == [k \in 1..r |-> IF lens(k) = {} THEN 1 ELSE Max(lens(k))]
        pick(a, p) == idxs[a].at[[k \in 1..r |-> IF idxs[a].shape[k] = 1 THEN 0 ELSE p[k]]]
        src(p) == [a \in 1..Len(idxs) |-> pick(a, p)]
    IN  IF \E k \in 1..r : Cardinality(lens(k)) > 1 THEN Raised("IndexError")
        ELSE IF \E p \in Positions(shape) : src(p) \notin Positions(data.shape)
        THEN Raised("IndexError")
        ELSE [err |-> "none", shape |-> shape,
              at |-> [p \in Positions(shape) |-> data.at[src(p)]]]

\* _apply_perm(data, indices, axis)
_apply_perm(data, indices, axis) ==
    LET ndim == Len(data.shape)
        shape == data.shape
        padded == IF Len(indices.shape) < ndim
                  THEN shape_padright(indices, ndim - Len(indices.shape))
                  ELSE indices
    IN  AdvancedIndex(data, [a \in 1..ndim |->
            IF a - 1 = axis THEN padded ELSE _axis_count(shape, a - 1, ndim)])

\* _apply_index(data, indices, axis)
_apply_index(data, indices, axis) ==
    LET ndim == Len(data.shape)
        shape == data.shape
        padded == IF Len(indices.shape) < ndim - 1
                  THEN shape_padright(indices, ndim - Len(indices.shape) - 1)
                  ELSE indices
    IN  AdvancedIndex(data, [a \in 1..ndim |->
            IF a - 1 = axis THEN padded
            ELSE IF a - 1 < axis THEN _axis_count(shape, a - 1, ndim - 1)
            ELSE _axis_count(shape, a - 2, ndim - 1)])

\* the data array of a shape: every element is its own position, so that
\* no two elements are equal
Data(shape) == [shape |-> shape, at |-> [p \in Positions(shape) |-> p]]

\* shape without one axis
RemoveAxis(shape, axis) == SubSeq(shape, 1, axis) \o SubSeq(shape, axis + 2, Len(shape))

\* p with x put in at an axis
InsertAxis(p, axis, x) == SubSeq(p, 1, axis) \o <<x>> \o SubSeq(p, axis + 1, Len(p))

\* the arrays of a shape with elements in 0..n-1
IndexArrays(shape, n) ==
    {[shape |-> shape, at |-> f] : f \in [Positions(shape) -> 0..(n - 1)]}

\* the shapes an index array may have when full is its complete shape:
\* full, or full without some of its last axes, over at least least axes
IndexShapes(full, least) ==
    {sh \in {SubSeq(full, 1, k) : k \in least..Len(full)} : CellCount(sh) <= MaxIndexCells}

\* the indices that go with data of a shape in _apply_index
IndexInputs(shape, axis) ==
    UNION {IndexArrays(sh, shape[axis + 1]) : sh \in IndexShapes(RemoveAxis(shape, axis), 1)}

\* the indices that go with data of a shape in _apply_perm: any number of
\* rows up to that of data
PermInputs(shape, axis) ==
    UNION {IndexArrays(sh, shape[axis + 1]) :
            sh \in UNION {IndexShapes([shape EXCEPT ![axis + 1] = n], axis + 1) :
                            n \in 1..shape[axis + 1]}}

\* the arguments of a call that has not been made yet
InitGather ==
    /\ NoController
    /\ \E shape \in GatherShapes : \E axis \in 0..(Len(shape) - 1) :
        \/ \E indices \in IndexInputs(shape, axis) :
            call = [fn |-> "_apply_index", data |-> Data(shape), indices |-> indices,
                    axis |-> axis, done |-> FALSE, result |-> Raised("none")]
        \/ \E indices \in PermInputs(shape, axis) :
            call = [fn |-> "_apply_perm", data |-> Data(shape), indices |-> indices,
                    axis |-> axis, done |-> FALSE, result |-> Raised("none")]

ApplyIndex ==
    /\ call.fn = "_apply_index" /\ ~call.done
    /\ call' = [call EXCEPT !.done = TRUE,
                            !.result = _apply_index(call.data, call.indices, call.axis)]
    /\ UNCHANGED controllerVars

ApplyPerm ==
    /\ call.fn = "_apply_perm" /\ ~call.done
    /\ call' = [call EXCEPT !.done = TRUE,
                            !.result = _apply_perm(call.data, call.indices, call.axis)]
    /\ UNCHANGED controllerVars

NextGather == ApplyIndex \/ ApplyPerm

SpecGather == InitGather /\ [][NextGather]_vars

---------------------------------------------------------------------------
(* What the history variables say *)

Outputs == 1..Len(outputs)
Units(o) == 1..outputs[o][1]
Slots == 1..topn

\* every example fed to output o so far, in stream order
Fed(o) == Flat([k \in 1..Len(history) |-> history[k][o]])

\* the batch sizes of the steps so far
BatchSizes == [k \in 1..Len(history) |-> Len(history[k][1])]

\* the number of examples fed before step k
StartOf(k) == SumSeq(SubSeq(BatchSizes, 1, k - 1))

\* the batch output o got in the last step
LastBatch(o) == history[Len(history)][o]

\* the example coordinate of an entry of indices
ExampleOf(o, entry) == IF IsDense(outputs[o]) THEN entry ELSE entry[1]

\* the activation of unit u that the fed data holds at the coordinate entry
ActivationAt(o, u, entry) ==
    IF IsDense(outputs[o])
    THEN Fed(o)[entry + 1][u]
    ELSE Fed(o)[entry[1] + 1][u][entry[2] + 1][entry[3] + 1]

\* the slot holds an entry taken from a batch, not an initial zero
FromBatch(o, i, u) == origin[o][i][u][1] > 0

RECURSIVE SortDesc(_)
\* the elements of a sequence of numbers, largest first
SortDesc(s) ==
    IF s = <<>> THEN <<>>
    ELSE LET k == CHOOSE k \in 1..Len(s) : \A l \in 1..Len(s) : s[l] <= s[k]
         IN  <<s[k]>> \o SortDesc(SubSeq(s, 1, k - 1) \o SubSeq(s, k + 1, Len(s)))

Zeros(n) == [i \in 1..n |-> 0]

\* the n largest of a sequence of at least n numbers, largest first
Largest(s, n) == SubSeq(SortDesc(s), 1, n)

---------------------------------------------------------------------------
(* Claims *)

\* C1: for a dense output and every unit u, the multiset of quantities[:, u]
\* is the N largest of the N initial zeros together with every activation of
\* u fed so far, whatever the batch sizes were.
C1_StreamingEqualsOneShotTopN ==
    \A o \in Outputs : IsDense(outputs[o]) =>
        \A u \in Units(o) :
            SortDesc(Column(maximum_activations[o].quantity, u))
                = Largest(Zeros(topn) \o Column(Fed(o), u), topn)

\* C1 witness: three steps on a dense output, the second of which displaced
\* an entry that the first had stored.
C1_Witness ==
    /\ IsDense(outputs[1]) /\ Len(history) = 3 /\ topn = 2
    /\ BatchSizes = <<1, 1, 1>>
    /\ Fed(1)[1][1] = 1 /\ Fed(1)[2][1] = 3 /\ Fed(1)[3][1] = 5
    /\ Column(maximum_activations[1].quantity, 1) = <<5, 3>>

\* C2: after any update, dense or spatial, every column quantities[:, u] is
\* non-increasing.
C2_QuantitiesNonIncreasing ==
    \A o \in Outputs : \A u \in Units(o) : \A i \in 1..(topn - 1) :
        maximum_activations[o].quantity[i][u] >= maximum_activations[o].quantity[i + 1][u]

\* C2 witness: a spatial record after two updates, whose second batch held
\* the larger maximum and was ranked first.
C2_Witness ==
    /\ ~IsDense(outputs[1]) /\ Len(history) = 2 /\ topn = 2
    /\ origin[1][1][1] = <<2, 0>> /\ origin[1][2][1] = <<1, 0>>
    /\ maximum_activations[1].quantity[1][1] > maximum_activations[1].quantity[2][1]

\* C3 as stated: after an update, for EVERY slot, the initial zero entries
\* included, the fed data holds the slot's quantity at the slot's coordinate.
C3_EverySlotMatchesData ==
    history # <<>> =>
        \A o \in Outputs : \A i \in Slots : \A u \in Units(o) :
            ActivationAt(o, u, maximum_activations[o].index[i][u])
                = maximum_activations[o].quantity[i][u]

\* C3 amended: for every slot that holds an entry taken from a batch, the fed
\* data holds the slot's quantity at the slot's coordinate (example index, and
\* row and column for a spatial output).
C3_BatchSlotsMatchData ==
    \A o \in Outputs : \A i \in Slots : \A u \in Units(o) :
        FromBatch(o, i, u) =>
            ActivationAt(o, u, maximum_activations[o].index[i][u])
                = maximum_activations[o].quantity[i][u]

\* C3 witness: a spatial slot whose entry comes from the second step and
\* whose maximum lies off the first row or column.
C3_Witness ==
    /\ ~IsDense(outputs[1]) /\ Len(history) = 2
    /\ origin[1][1][1][1] = 2
    /\ maximum_activations[1].index[1][1][1] = 1
    /\ maximum_activations[1].index[1][1][2] + maximum_activations[1].index[1][1][3] > 0
    /\ maximum_activations[1].quantity[1][1] = High

\* C4: quantities and indices hold exactly N slots, each with one entry per
\* unit, initially and after every update, whatever the batch size.
C4_ExactlyNSlots ==
    \A o \in Outputs :
        /\ Len(maximum_activations[o].quantity) = topn
        /\ Len(maximum_activations[o].index) = topn
        /\ \A i \in Slots :
            /\ Len(maximum_activations[o].quantity[i]) = outputs[o][1]
            /\ Len(maximum_activations[o].index[i]) = outputs[o][1]

\* C4 witness: updates with a batch smaller than N and with one equal to N
\* have happened.
C4_Witness ==
    /\ topn = 2 /\ BatchSizes = <<1, 2>> /\ Len(maximum_activations[1].quantity) = 2

\* C5: the stream position is the sum of the batch sizes of the steps so far
\* (0 before the first), and no step decreases it.
C5_StreamPositionIsSum ==
    /\ [](streamindex = SumSeq(BatchSizes))
    /\ [][streamindex' >= streamindex]_vars

\* C5 witness: two steps with batches of different sizes.
C5_Witness ==
    /\ Len(history) = 2 /\ BatchSizes = <<2, 1>> /\ streamindex = 3

\* C6: after at least one batch every stored example coordinate lies in
\* [0, b_1 + ... + b_k); the entry that came from example j of a batch is
\* stored with the number of examples fed before that batch plus j; and
\* scenario A gives quantities [[5],[3]] and indices [[0],[2]].
C6_ExampleCoordinates ==
    /\ history # <<>> =>
        \A o \in Outputs : \A i \in Slots : \A u \in Units(o) :
            /\ ExampleOf(o, maximum_activations[o].index[i][u]) \in 0..(SumSeq(BatchSizes) - 1)
            /\ FromBatch(o, i, u) =>
                ExampleOf(o, maximum_activations[o].index[i][u])
                    = StartOf(origin[o][i][u][1]) + origin[o][i][u][2]
    /\ (/\ topn = 2 /\ outputs = <<(<<1>>)>>
        /\ history = << <<(<< <<5>>, <<1>> >>)>>, <<(<< <<3>> >>)>> >>)
        => /\ maximum_activations[1].quantity = << <<5>>, <<3>> >>
           /\ maximum_activations[1].index = << <<0>>, <<2>> >>

\* C6 witness: scenario A has run.
C6_Witness ==
    /\ topn = 2 /\ outputs = <<(<<1>>)>>
    /\ history = << <<(<< <<5>>, <<1>> >>)>>, <<(<< <<3>> >>)>> >>
    /\ maximum_activations[1].index[2][1] = 2

\* the stream position at the start of the last step
LastStart == StartOf(Len(history))

\* the largest activation of a feature map
MaxOfMap(map) == Max({map[r][c] : r \in 1..Len(map), c \in 1..Len(map[1])})

RECURSIVE StableArgSortFrom(_, _, _)
\* the first n positions of the stable ascending order of the positions S of v:
\* among equal elements the earlier position comes first
StableArgSortFrom(v, S, n) ==
    IF n = 0 \/ S = {} THEN <<>>
    ELSE LET k == CHOOSE k \in S : \A l \in S : v[k] < v[l] \/ (v[k] = v[l] /\ k <= l)
         IN  <<k - 1>> \o StableArgSortFrom(v, S \ {k}, n - 1)

\* (-cmax).argsort(axis=0)[:n] as a stable sort would give it
StableCargsort(output, record, n) ==
    LET ncmax == Neg(Cmax(output, record))
    IN  Transpose([u \in 1..Len(ncmax[1]) |->
            StableArgSortFrom(Column(ncmax, u), 1..Len(ncmax), n)])

\* C7 as stated: when every quantity of a record is greater than zero, an
\* update with an all-zero batch leaves quantities and indices unchanged, also
\* when entries of a unit hold equal quantities.
C7_ZeroBatchChangesNothing ==
    history # <<>> =>
        \A o \in Outputs :
            (/\ IsDense(outputs[o])
             /\ \A i \in Slots : \A u \in Units(o) : prev[o].quantity[i][u] > 0
             /\ \A j \in 1..Len(LastBatch(o)) : \A u \in Units(o) : LastBatch(o)[j][u] = 0)
            => /\ maximum_activations[o].quantity = prev[o].quantity
               /\ maximum_activations[o].index = prev[o].index

\* C8 as stated: candidates of equal quantity are ranked in insertion order,
\* the record's entries before the batch's and each group in its own order, so
\* every update gives the record a stable sort gives.
C8_TiesKeepInsertionOrder ==
    history # <<>> =>
        \A o \in Outputs :
            maximum_activations[o] =
                create_maximum_activation_update(LastBatch(o), prev[o], LastStart,
                    StableCargsort(LastBatch(o), prev[o], topn))

\* C9: for a spatial output of any height and width the candidate of each
\* (example, unit) is the maximum of the unit's map, and the recorded row and
\* column lie inside the map and address that maximum; scenario B gives
\* quantity 9 and index (0, 0, 1).
C9_SpatialCandidates ==
    /\ history # <<>> =>
        \A o \in Outputs : ~IsDense(outputs[o]) =>
            \A j \in 1..Len(LastBatch(o)) : \A u \in Units(o) :
                LET map == LastBatch(o)[j][u]
                    tmax == Tmax(LastBatch(o), prev[o])[j][u]
                    tind == Tind(LastBatch(o), prev[o], LastStart)[j][u]
                IN  /\ tmax = MaxOfMap(map)
                    /\ tind[2] \in 0..(Len(map) - 1)
                    /\ tind[3] \in 0..(Len(map[1]) - 1)
                    /\ map[tind[2] + 1][tind[3] + 1] = tmax
    /\ (topn = 1 /\ outputs = <<(<<1, 2, 2>>)>> /\ history = << <<(<< <<ScenarioBMap>> >>)>> >>)
        => /\ maximum_activations[1].quantity = << <<9>> >>
           /\ maximum_activations[1].index = << <<(<<0, 0, 1>>)>> >>

\* C9 witness: a map of one row and two columns with its maximum in the
\* second column has been ranked.
C9_Witness ==
    /\ outputs = <<(<<1, 1, 2>>)>> /\ Len(history) = 1
    /\ LastBatch(1)[1][1] = <<(<<Low, High>>)>>
    /\ maximum_activations[1].index[1][1] = <<0, 0, 1>>

\* the multiset of quantities[:, u] of output o is the batch's activations of
\* u and zeros for the other slots, and the buffers have shape (N, units)
KeepsWholeBatch(o) ==
    /\ \A u \in Units(o) :
        SortDesc(Column(maximum_activations[o].quantity, u))
            = SortDesc(Column(LastBatch(o), u) \o Zeros(topn - Len(LastBatch(o))))
    /\ Len(maximum_activations[o].quantity) = topn
    /\ Len(maximum_activations[o].index) = topn
    /\ \A i \in Slots : Len(maximum_activations[o].quantity[i]) = outputs[o][1]

\* C10 as stated: the first update of a zeroed record with a batch smaller
\* than N retains every activation of the batch, whatever the values.
C10_FirstUpdateKeepsBatch ==
    \A o \in Outputs :
        (IsDense(outputs[o]) /\ Len(history) = 1 /\ Len(LastBatch(o)) < topn)
            => KeepsWholeBatch(o)

\* C10 amended: the first update of a zeroed record with a batch smaller than
\* N whose activations are all >= 0 retains every activation of the batch, the
\* other slots hold zeros, and the buffers keep shape (N, units).
C10_FirstUpdateKeepsNonNegativeBatch ==
    \A o \in Outputs :
        (/\ IsDense(outputs[o]) /\ Len(history) = 1 /\ Len(LastBatch(o)) < topn
         /\ \A j \in 1..Len(LastBatch(o)) : \A u \in Units(o) : LastBatch(o)[j][u] >= 0)
            => KeepsWholeBatch(o)

\* C10 witness: N = 2 and a first batch of one positive activation, stored
\* above the remaining zero.
C10_Witness ==
    /\ IsDense(outputs[1]) /\ topn = 2 /\ BatchSizes = <<1>>
    /\ LastBatch(1)[1][1] = 3
    /\ Column(maximum_activations[1].quantity, 1) = <<3, 0>>

\* C11: in every step the bundle holds exactly one stream position update, it
\* is the last entry, after the updates of every output, and it advances the
\* stream position by the batch size of the first output, whatever the number
\* of outputs and the batch sizes of the others.
C11_OneStreamUpdateLast ==
    history # <<>> =>
        LET U == maximum_activations_updates
            S == {k \in 1..Len(U) : U[k].target = <<"streamindex", 0>>}
        IN  /\ S = {Len(U)}
            /\ \A o \in Outputs : \E k \in 1..(Len(U) - 1) : U[k].target = <<"quantity", o>>
            /\ U[Len(U)].value = LastStart + Len(LastBatch(1))
            /\ streamindex = LastStart + Len(LastBatch(1))

\* C11 witness: two outputs, the second with the larger batch, and the stream
\* position advanced by the size of the first.
C11_Witness ==
    /\ Len(outputs) = 2 /\ Len(history) = 1
    /\ Len(LastBatch(1)) = 1 /\ Len(LastBatch(2)) = 2
    /\ streamindex = 1
    /\ Len(maximum_activations_updates) = 5

\* C12 as stated: a controller with topn <= 0 is rejected at construction and
\* never takes a step.
C12_DegenerateTopNRejected ==
    topn <= 0 => (error # "none" /\ history = <<>>)

\* an output whose number of axes disagrees with its dims
RankMismatch == \E o \in Outputs : ranks[o] # RankOf(outputs[o])

\* C13: when a 2d output meets a spatial record or a 4d output a dense one,
\* an error is raised and quantities, indices, snapshot and the stream
\* position keep the values they had: no step changes them.
C13_RankMismatchFails ==
    RankMismatch =>
        /\ error # "none"
        /\ history = <<>>
        /\ streamindex = 0
        /\ topn >= 0 =>
            maximum_activations
                = [o \in Outputs |-> create_maximum_activation_for(outputs[o], topn)]

\* C13 witness: the second of two outputs has dims of a spatial record and two
\* axes; the error is flatten's.
C13_Witness ==
    /\ outputs = <<(<<1>>), (<<1, 1, 2>>)>> /\ ranks = <<2, 2>> /\ topn = 1
    /\ error = "ValueError"
    /\ maximum_activations[2].quantity = << <<0>> >>

\* C14 as stated: every batch SampledScheme yields, the final one included,
\* has exactly batch_size indices, each from the scheme's index set.
C14_OnlyCompleteBatches ==
    \A k \in 1..Len(call.yielded) :
        /\ Len(call.yielded[k]) = call.batch_size
        /\ \A j \in 1..Len(call.yielded[k]) : call.yielded[k][j] \in 0..(call.examples - 1)

\* C15 as stated: for every axis and data with axes of different lengths,
\* _apply_index returns an array shaped like data without the axis whose
\* element at p is the element of data at p with idx[p] put in at the axis.
C15_ApplyIndexSelects ==
    (call.fn = "_apply_index" /\ call.done
        /\ Len(call.indices.shape) = Len(call.data.shape) - 1) =>
        /\ call.result.err = "none"
        /\ call.result.shape = RemoveAxis(call.data.shape, call.axis)
        /\ \A p \in Positions(call.result.shape) :
            call.result.at[p] = call.data.at[InsertAxis(p, call.axis, call.indices.at[p])]

\* C16: along axis 0, out[i, r] = data[perm[i, r'], r], where perm may have
\* fewer rows than data and fewer axes, r' being r cut to the axes of perm;
\* the other axes keep their lengths.
C16_ApplyPermSelectsRows ==
    (call.fn = "_apply_perm" /\ call.done /\ call.axis = 0) =>
        LET perm == call.indices
        IN  /\ call.result.err = "none"
            /\ call.result.shape = <<perm.shape[1]>> \o Tail(call.data.shape)
            /\ \A p \in Positions(call.result.shape) :
                call.result.at[p]
                    = call.data.at[<<perm.at[SubSeq(p, 1, Len(perm.shape))]>> \o Tail(p)]

\* C16 witness: two rows taken out of three by a perm of two axes from data
\* of three axes, the last row of data first.
C16_Witness ==
    /\ call.fn = "_apply_perm" /\ call.done /\ call.axis = 0
    /\ call.data.shape = <<3, 2, 2>> /\ call.indices.shape = <<2, 2>>
    /\ call.indices.at[<<0, 1>>] = 2
    /\ call.result.err = "none"
    /\ call.result.at[<<0, 1, 1>>] = <<2, 1, 1>>

\* C17: in a spatial record every slot that holds an entry from a batch has
\* as snapshot the feature map of its unit in the example that indices names;
\* the maximum of that map is the quantity and lies at the recorded row and
\* column; quantities, indices and snapshot are gathered by one truncated
\* permutation.
C17_SnapshotIsTheRecordedMap ==
    \A o \in Outputs : ~IsDense(outputs[o]) =>
        /\ \A i \in Slots : \A u \in Units(o) : FromBatch(o, i, u) =>
            LET rec == maximum_activations[o]
                idx == rec.index[i][u]
                map == rec.snapshot.val[i][u]
            IN  /\ map = Fed(o)[idx[1] + 1][u]
                /\ MaxOfMap(map) = rec.quantity[i][u]
                /\ map[idx[2] + 1][idx[3] + 1] = rec.quantity[i][u]
        /\ history # <<>> =>
            /\ maximum_activations[o].quantity
                = apply_perm(Cmax(LastBatch(o), prev[o]), cargsorts[o])
            /\ maximum_activations[o].index
                = apply_perm(Cind(LastBatch(o), prev[o], LastStart), cargsorts[o])
            /\ maximum_activations[o].snapshot.val
                = apply_perm(prev[o].snapshot.val \o LastBatch(o), cargsorts[o])

\* C17 witness: the second step ranked its map above the map of the first, so
\* both snapshots moved.
C17_Witness ==
    /\ outputs = <<(<<1, 2, 2>>)>> /\ topn = 2 /\ Len(history) = 2
    /\ origin[1][1][1] = <<2, 0>> /\ origin[1][2][1] = <<1, 0>>
    /\ maximum_activations[1].snapshot.val[1][1] = ScenarioBMap
    /\ maximum_activations[1].snapshot.val[2][1] = <<(<<Low, Low>>), (<<Low, Low>>)>>

\* C18: every output's new record is computed from its own record and the
\* stream position as they were before the step, and from its own batch; so
\* two outputs that record the same example of the same step store the same
\* example index.
C18_OutputsUpdateFromOldState ==
    history # <<>> =>
        /\ \A o \in Outputs :
            maximum_activations[o] =
                create_maximum_activation_update(LastBatch(o), prev[o], LastStart, cargsorts[o])
        /\ \A o1 \in Outputs : \A o2 \in Outputs :
            \A i1 \in Slots : \A i2 \in Slots : \A u1 \in Units(o1) : \A u2 \in Units(o2) :
                (FromBatch(o1, i1, u1) /\ origin[o1][i1][u1] = origin[o2][i2][u2])
                    => ExampleOf(o1, maximum_activations[o1].index[i1][u1])
                        = ExampleOf(o2, maximum_activations[o2].index[i2][u2])

\* C18 witness: two outputs both hold the example of the second step, under
\* example index 1.
C18_Witness ==
    /\ Len(outputs) = 2 /\ Len(history) = 2 /\ topn >= 1
    /\ origin[1][1][1] = <<2, 0>> /\ origin[2][1][1] = <<2, 0>>
    /\ ExampleOf(1, maximum_activations[1].index[1][1]) = 1
    /\ ExampleOf(2, maximum_activations[2].index[1][1]) = 1

\* C19: no quantity is smaller after an update than before it, and every
\* quantity is >= 0 in every state: a negative activation is never retained.
C19_QuantitiesNeverDecrease ==
    \A o \in Outputs : \A i \in Slots : \A u \in Units(o) :
        /\ maximum_activations[o].quantity[i][u] >= prev[o].quantity[i][u]
        /\ maximum_activations[o].quantity[i][u] >= 0

\* C19 witness: a negative activation was fed after a positive one and the
\* record kept the positive one above a zero.
C19_Witness ==
    /\ outputs = <<(<<1>>)>> /\ topn = 2 /\ Len(history) = 2
    /\ Fed(1)[1][1] = 3 /\ Fed(1)[2][1] = -1
    /\ Column(maximum_activations[1].quantity, 1) = <<3, 0>>

====
